---- MODULE Spec2Model ----
(***************************************************************************)
(* Model of the video processing server (src/unnamed/part_000): the        *)
(* in-memory job registry (jobProgress), the SSE broadcaster (sseClients,  *)
(* sendSse, registerSse), the filter graph builders, the preview, export   *)
(* and download routes and the split/archive pipeline.  Node runs one      *)
(* handler or callback at a time, so every action below is one synchronous *)
(* run of a handler or of a callback.                                      *)
(*                                                                         *)
(* JobSpec is the registry and the broadcaster under export jobs and SSE   *)
(* connections; RequestSpec is the request handling of export and split,   *)
(* with the export commands running beside the split; TransformSpec is the *)
(* ffmpeg invocations that preview and export build, for every option set  *)
(* of the client and an empty or a filled audio library; PathSpec is the   *)
(* resolution of client identifiers to file paths by the routes.  The      *)
(* split pipeline never reads or writes jobProgress or sseClients, and the *)
(* two share only the uuidv4 generator.                                    *)
(*                                                                         *)
(* Numbers of the options are kept in hundredths (103 is 1.03).            *)
(***************************************************************************)
EXTENDS Integers, Sequences, FiniteSets, TLC

\* ---------------------------------------------------------------- bounds
MaxProgress == 1     \* 'progress' events one ffmpeg command emits
MaxSegs == 2         \* longest segment list of a split request

\* the identifiers uuidv4 hands out, and the SSE response objects
Ids == {"id1", "id2"}
Obs == {"res1", "res2"}

\* ---------------------------------------------------------------- inputs
\* fileId of a request: absent, an uploaded file, an unknown file, a
\* relative path that leaves the upload directory
FileIds == {"", "a.mp4", "missing.mp4", "../../data/presets.json"}
\* the files present under UPLOAD_DIR
Uploads == {"a.mp4"}

\* the :file parameter of a download request
DownloadNames == {"old.mp4", "../uploads/a.mp4", ".."}

\* a client-supplied name split at its path separators
Parts(name) ==
    CASE name = "" -> <<>>
      [] name = "a.mp4" -> <<"a.mp4">>
      [] name = "missing.mp4" -> <<"missing.mp4">>
      [] name = "../../data/presets.json" -> <<"..", "..", "data", "presets.json">>
      [] name = "old.mp4" -> <<"old.mp4">>
      [] name = "../uploads/a.mp4" -> <<"..", "uploads", "a.mp4">>
      [] name = ".." -> <<"..">>

\* the directories of the server, as sequences of path segments
ROOT == <<"server">>
TMP_DIR == ROOT \o <<"tmp">>
UPLOAD_DIR == TMP_DIR \o <<"uploads">>
OUTPUT_DIR == TMP_DIR \o <<"outputs">>
DATA_DIR == ROOT \o <<"data">>
ASSETS_AUDIO_DIR == ROOT \o <<"assets", "audio">>
PRESETS_PATH == DATA_DIR \o <<"presets.json">>

\* the files on disk after start-up, and after a preset has been saved and
\* an export has been written
FreshDisk == {UPLOAD_DIR \o <<f>> : f \in Uploads}
UsedDisk == FreshDisk \cup {PRESETS_PATH, OUTPUT_DIR \o <<"old.mp4">>}

\* listAudioAssets(): the audio library empty, or holding one track
AssetLists == {<<>>, <<ASSETS_AUDIO_DIR \o <<"bgm.mp3">>>>}

\* the argument p of a fluent-ffmpeg progress event; p.percent is in tenths
\* of a percent (405 is 40.5) and is missing when ffmpeg knows no duration
ProgressInputs ==
    {[frames |-> 1]} \cup {[frames |-> 1, percent |-> t] : t \in {-55, 405, 1500}}

\* String(err) of an ffmpeg failure
ErrDetails == {"Error: ffmpeg exited with code 1"}

\* the ranges a split request may name (the last one ends before it starts),
\* and the segment lists of a request body (the empty list included)
Ranges == {[start |-> 0, end |-> 5], [start |-> 5, end |-> 10], [start |-> 10, end |-> 5]}
SegLists == UNION {[1..n -> Ranges] : n \in 0..MaxSegs}

\* ------------------------------------------------------------- JS values
\* an option value: undefined, a number (in hundredths), the decimal text of
\* a number (as a query string carries it), any other text
Undefined == [kind |-> "undefined"]
Num(v) == [kind |-> "number", v |-> v]
NumText(v) == [kind |-> "string", num |-> v]
Text(w) == [kind |-> "string", text |-> w]

On == Text("on")
Off == Text("off")

\* the option sets the client can hold (type Options of page.tsx, and the
\* colorGrade and crop keys a saved preset may carry); the sliders reach 0
\* for saturation and bgmVolume
OptionInputs ==
    [brightness : {Undefined, Num(0), Num(10)},
     contrast : {Num(100), Num(120)},
     saturation : {Undefined, Num(0), Num(100), Num(150)},
     gamma : {Undefined, Num(100)},
     colorGrade : {Undefined, On},
     cropResize : {Off, On},
     crop : {Undefined, On},
     noiseReduction : {Off, On},
     copyrightAvoid : {Off, On},
     pitchShift : {Undefined, Num(103)},
     tempo : {Undefined, Num(98)},
     addBgm : {Off, On},
     bgmVolume : {Undefined, Num(0), Num(8)}]

\* the options the page starts with
ClientDefaults ==
    [brightness |-> Num(0), contrast |-> Num(100), saturation |-> Num(100),
     gamma |-> Num(100), colorGrade |-> Undefined, cropResize |-> Off,
     crop |-> Undefined, noiseReduction |-> Off, copyrightAvoid |-> Off,
     pitchShift |-> Num(103), tempo |-> Num(98), addBgm |-> Off,
     bgmVolume |-> Num(8)]

VARIABLES
    jobProgress,   \* Map jobId -> { percent, status, downloadUrl?, error? }
    sseClients,    \* Map jobId -> Set(res)
    resState,      \* each SSE response: "idle" (not yet opened), "open", "closed"
    resJob,        \* the jobId an SSE response subscribed to
    received,      \* the events written to each SSE response, in order
    command,       \* the ffmpeg command of each export job: "running" or "ended"
    updates,       \* history: the updates the handlers of each job made, in order
    issued,        \* the identifiers uuidv4 has returned so far
    returned,      \* the jobIds sent back by POST /api/export
    lastReply,     \* the last response of POST /api/export
    split,         \* the POST /api/split request: its place in the handler
                   \* (pc), the loop index i, the ffmpeg commands spawned, the
                   \* clip files written, the archive entries, whether
                   \* archive.finalize() was called, the 1-based position of
                   \* the extraction that failed (0: none), the responses
    options,       \* the options the client holds (useState of page.tsx)
    assets,        \* the audio files under ASSETS_AUDIO_DIR
    disk,          \* the paths that exist on the server's disk
    served,        \* the last GET /api/preview or GET /api/download request:
                   \* its response code, the path it resolved, and for a
                   \* preview the chains built and the ffmpeg command piped
    invocation     \* Map jobId -> the chains built by POST /api/export and
                   \* the ffmpeg command it ran

\* what no handler of the server writes
env == <<options, assets, disk>>

vars == <<jobProgress, sseClients, resState, resJob, received, command,
          updates, issued, returned, lastReply, split, env, served, invocation>>

\* ------------------------------------------------------------ pure helpers
\* Math.floor of a value given in tenths
Floor(tenths) == tenths \div 10

Min(a, b) == IF a < b THEN a ELSE b

\* ClampPercent with the clamp at 100 instead of 99
ClampPercentAt100(p) ==
    LET v == IF "percent" \in DOMAIN p /\ p.percent # 0 THEN p.percent ELSE 0
    IN Min(100, Floor(v))

\* Math.min(99, Math.floor(p.percent || 0))
ClampPercent(p) ==
    LET v == IF "percent" \in DOMAIN p /\ p.percent # 0 THEN p.percent ELSE 0
    IN Min(99, Floor(v))

\* path.basename(outPath) for outPath = OUTPUT_DIR/<id>.mp4
OutName(id) == <<id, ".mp4">>

\* `/api/download/${path.basename(outPath)}`
DownloadUrl(name) == <<"/api/download/", name>>

\* a running event that already names the output file
RunningEventWithLocator(percent) ==
    [percent |-> percent, status |-> "running", downloadUrl |-> <<"/api/download/", "">>]

RunningEvent(percent) == [percent |-> percent, status |-> "running"]

CompletedEvent(id) ==
    [percent |-> 100, status |-> "completed", downloadUrl |-> DownloadUrl(OutName(id))]

ErrorEvent(err) == [percent |-> 0, status |-> "error", error |-> err]

\* jobProgress.get(jobId) || { percent: 0, status: 'queued' }
DefaultSnapshot == [percent |-> 0, status |-> "queued"]

\* Snapshot without the registry lookup
SnapshotWithoutLookup(jobId) == DefaultSnapshot

Snapshot(jobId) ==
    IF jobId \in DOMAIN jobProgress THEN jobProgress[jobId] ELSE DefaultSnapshot

\* Map.set
MapSet(m, k, v) == [x \in DOMAIN m \cup {k} |-> IF x = k THEN v ELSE m[x]]

\* uuidv4 handing out an identifier a second time
ReusedIds == Ids

\* uuidv4(): an identifier never returned before; identifiers are
\* interchangeable, so one unused identifier stands for the random choice
FreshIds == IF Ids \ issued = {} THEN {} ELSE {CHOOSE id \in Ids \ issued : TRUE}

\* sendSse writing to every open response, whatever job it subscribed to
SendSseToAll(jobId, data) ==
    [o \in Obs |->
        IF resState[o] = "open" THEN Append(received[o], data) ELSE received[o]]

\* sendSse(jobId, data): the responses after the write to every client of jobId
SendSse(jobId, data) ==
    [o \in Obs |->
        IF jobId \in DOMAIN sseClients /\ o \in sseClients[jobId]
        THEN Append(received[o], data)
        ELSE received[o]]

\* ------------------------------------------------------------------ paths
RECURSIVE Resolve(_, _)
\* path normalisation: a ".." segment removes the segment before it
Resolve(acc, parts) ==
    IF parts = <<>> THEN acc
    ELSE Resolve(IF Head(parts) = ".."
                 THEN (IF acc = <<>> THEN <<>> ELSE SubSeq(acc, 1, Len(acc) - 1))
                 ELSE Append(acc, Head(parts)),
                 Tail(parts))

\* path.join(base, name)
PathJoin(base, parts) == Resolve(base, parts)

\* path.basename(name): the last segment, ".." included
Basename(parts) == IF parts = <<>> THEN <<>> ELSE <<parts[Len(parts)]>>

\* path.join(UPLOAD_DIR, String(fileId))
InputPath(fileId) == PathJoin(UPLOAD_DIR, Parts(fileId))

\* path.join(OUTPUT_DIR, path.basename(req.params.file))
DownloadPath(file) == PathJoin(OUTPUT_DIR, Basename(Parts(file)))

\* path.join(OUTPUT_DIR, `${id}.mp4`)
OutPath(id) == [dir |-> OUTPUT_DIR, name |-> OutName(id)]

\* fs.existsSync(p)
ExistsSync(p) == p \in disk

\* ------------------------------------------------------------ JS operators
\* Boolean(x): undefined, 0 and the empty text are falsy, the text "0" is not
Truthy(x) ==
    CASE x.kind = "undefined" -> FALSE
      [] x.kind = "number" -> x.v # 0
      [] x.kind = "string" -> IF "text" \in DOMAIN x THEN x.text # "" ELSE TRUE

\* x || d
OrElse(x, d) == IF Truthy(x) THEN x ELSE d

\* x ?? d
Coalesce(x, d) == IF x.kind = "undefined" THEN d ELSE x

\* Number(x) of a number or of the decimal text of one
ToNumber(x) ==
    CASE x.kind = "number" -> x.v
      [] x.kind = "string" /\ "num" \in DOMAIN x -> x.num

Max(a, b) == IF a > b THEN a ELSE b

\* String(v) of URLSearchParams.set, read back as req.query[k]; a key whose
\* value is undefined is not sent
QueryValue(x) == IF x.kind = "number" THEN NumText(x.v) ELSE x

\* the query of updatePreview: the options and duration=8, no start
AsQuery(t) ==
    [k \in DOMAIN t \cup {"start", "duration"} |->
        CASE k = "start" -> Undefined
          [] k = "duration" -> NumText(800)
          [] OTHER -> QueryValue(t[k])]

\* JSON.stringify of the client and express.json of the server: a number
\* arrives as a number, a text as a text, an undefined key is dropped
JsonValue(x) ==
    CASE x.kind = "number" -> Num(x.v)
      [] x.kind = "string" -> Text(x.text)
      [] x.kind = "undefined" -> Undefined

AsJson(t) == [k \in DOMAIN t |-> JsonValue(t[k])]

\* ---------------------------------------------------- filter graph builders
\* a chain is the sequence of its stages; the empty chain is the empty string
\* of the code, which `if (vFilters)` takes as "no chain"

\* the eq stage, pushed when some colour value is off its neutral value
ColorStage(opts) ==
    LET brightness == ToNumber(Coalesce(opts.brightness, Num(0)))
        contrast == ToNumber(Coalesce(opts.contrast, Num(100)))
        saturation == IF opts.colorGrade = On \/ Truthy(opts.saturation)
                      THEN ToNumber(OrElse(opts.saturation, Num(105))) ELSE 100
        gamma == IF opts.colorGrade = On \/ Truthy(opts.gamma)
                 THEN ToNumber(OrElse(opts.gamma, Num(102))) ELSE 100
    IN IF brightness # 0 \/ contrast # 100 \/ saturation # 100 \/ gamma # 100
       THEN << [filter |-> "eq", brightness |-> brightness, contrast |-> contrast,
                saturation |-> saturation, gamma |-> gamma] >>
       ELSE <<>>

CropStage == [filter |-> "crop", w |-> "iw*0.98", h |-> "ih*0.98"]
ScaleStage == [filter |-> "scale", w |-> "trunc(iw/0.98/2)*2", h |-> "trunc(ih/0.98/2)*2"]

\* the builder pushing scale before crop
buildVideoFilterGraphScaleFirst(opts) ==
    ColorStage(opts) \o
    (IF opts.cropResize = On \/ opts.crop = On THEN <<ScaleStage, CropStage>> ELSE <<>>)

buildVideoFilterGraph(opts) ==
    ColorStage(opts) \o
    (IF opts.cropResize = On \/ opts.crop = On THEN <<CropStage, ScaleStage>> ELSE <<>>)

\* 'highpass=f=100,lowpass=f=10000,afftdn=nr=12'
DenoiseStages(opts) ==
    IF opts.noiseReduction = On
    THEN << [filter |-> "highpass", f |-> 100], [filter |-> "lowpass", f |-> 10000],
            [filter |-> "afftdn", nr |-> 12] >>
    ELSE <<>>

\* `asetrate=sr*${pitch},aresample=sr,atempo=${tempo / pitch}`; the quotient
\* is kept as its two terms
PitchTempoStages(opts) ==
    IF opts.copyrightAvoid = On \/ Truthy(opts.pitchShift) \/ Truthy(opts.tempo)
    THEN LET pitch == ToNumber(OrElse(opts.pitchShift, Num(103)))
             tempo == ToNumber(OrElse(opts.tempo, Num(98)))
         IN << [filter |-> "asetrate", sr |-> pitch], [filter |-> "aresample"],
               [filter |-> "atempo", tempo |-> tempo, pitch |-> pitch] >>
    ELSE <<>>

\* the builder adding a mix stage of its own when addBgm is on
buildAudioFilterGraphMixing(opts) ==
    DenoiseStages(opts) \o PitchTempoStages(opts) \o
    (IF opts.addBgm = On THEN << [filter |-> "amix"] >> ELSE <<>>)

buildAudioFilterGraph(opts) == DenoiseStages(opts) \o PitchTempoStages(opts)

\* -------------------------------------------------------- ffmpeg invocations
\* the amix graph: the library track at volume bgmVol, mixed with the main
\* audio after the chain aCombined
Amix(bgmVol, aCombined) == [volume |-> bgmVol, main |-> aCombined, mix |-> "amix"]

\* the filters handed to complexFilter
ComplexFilters(vFilters, amix) ==
    (IF vFilters # <<>>
     THEN << [filter |-> vFilters, inputs |-> <<"0:v">>, outputs |-> <<"v">>] >>
     ELSE <<>>)
    \o << [filter |-> amix, inputs |-> <<"1:a", "0:a">>, outputs |-> <<"a">>] >>

\* the callbacks every export command carries
ExportHandlers == {"progress", "end", "error"}

\* ffmpeg(inputPath).output(outPath) with the chains attached
SingleSourceExport(inputPath, id, vFilters, aFilters) ==
    [inputs |-> <<inputPath>>, complexFilter |-> <<>>, maps |-> <<>>,
     videoFilters |-> vFilters, audioFilters |-> aFilters,
     output |-> OutPath(id), on |-> ExportHandlers]

\* the export command whose fallback branch attaches no chain
ExportCommandBareFallback(inputPath, opts, lib, pick, id, vFilters, aFilters) ==
    IF opts.addBgm = On
    THEN IF Len(lib) > 0
         THEN [inputs |-> <<inputPath, lib[pick]>>,
               complexFilter |->
                   ComplexFilters(vFilters,
                       Amix(ToNumber(OrElse(opts.bgmVolume, Num(8))), aFilters)),
               maps |-> <<IF vFilters # <<>> THEN "v" ELSE "0:v", "a">>,
               videoFilters |-> <<>>, audioFilters |-> <<>>,
               output |-> OutPath(id), on |-> ExportHandlers]
         ELSE SingleSourceExport(inputPath, id, <<>>, <<>>)
    ELSE SingleSourceExport(inputPath, id, vFilters, aFilters)

\* the command POST /api/export builds: two inputs and the amix graph when
\* addBgm is on and the library holds a track (pick is the index
\* Math.random selects), the single-source command otherwise
ExportCommand(inputPath, opts, lib, pick, id, vFilters, aFilters) ==
    IF opts.addBgm = On
    THEN IF Len(lib) > 0
         THEN [inputs |-> <<inputPath, lib[pick]>>,
               complexFilter |->
                   ComplexFilters(vFilters,
                       Amix(ToNumber(OrElse(opts.bgmVolume, Num(8))), aFilters)),
               maps |-> <<IF vFilters # <<>> THEN "v" ELSE "0:v", "a">>,
               videoFilters |-> <<>>, audioFilters |-> <<>>,
               output |-> OutPath(id), on |-> ExportHandlers]
         ELSE SingleSourceExport(inputPath, id, vFilters, aFilters)
    ELSE SingleSourceExport(inputPath, id, vFilters, aFilters)

\* the chains POST /api/export builds from its options, and its command
ExportInvocation(inputPath, opts, lib, pick, id) ==
    LET vFilters == buildVideoFilterGraph(opts)
        aFilters == buildAudioFilterGraph(opts)
    IN [vFilters |-> vFilters, aFilters |-> aFilters,
        command |-> ExportCommand(inputPath, opts, lib, pick, id, vFilters, aFilters)]

\* the command GET /api/preview pipes to the response
PreviewCommand(inputPath, query, lib, pick, vFilters, aFilters) ==
    LET start == ToNumber(OrElse(query.start, Num(0)))
        duration == ToNumber(OrElse(query.duration, Num(500)))
    IN IF query.addBgm = On /\ Len(lib) > 0
       THEN [inputs |-> <<inputPath, lib[pick]>>, seek |-> Max(0, start),
             duration |-> duration, videoFilters |-> vFilters, audioFilters |-> <<>>,
             complexFilter |->
                 ComplexFilters(vFilters,
                     Amix(ToNumber(OrElse(query.bgmVolume, Num(8))), aFilters)),
             maps |-> <<"v", "a">>, output |-> "res", on |-> {"error"}]
       ELSE [inputs |-> <<inputPath>>, seek |-> Max(0, start),
             duration |-> duration, videoFilters |-> vFilters, audioFilters |-> aFilters,
             complexFilter |-> <<>>, maps |-> <<>>, output |-> "res", on |-> {"error"}]

\* the chains GET /api/preview builds from its query, and its command
PreviewInvocation(inputPath, query, lib, pick) ==
    LET vFilters == buildVideoFilterGraph(query)
        aFilters == buildAudioFilterGraph(query)
    IN [vFilters |-> vFilters, aFilters |-> aFilters,
        command |-> PreviewCommand(inputPath, query, lib, pick, vFilters, aFilters)]

\* the index Math.floor(Math.random() * assets.length) can give (counted
\* from 1); it is not drawn when the library is empty
Picks == IF assets = <<>> THEN {1} ELSE 1..Len(assets)

\* ------------------------------------------------------------------ state
\* the split request before it arrives
\* no preview or download request yet
NotServed == [route |-> "none"]

IdleSplit ==
    [pc |-> "idle", input |-> "", zipId |-> "", segments |-> <<>>, i |-> 0,
     spawned |-> <<>>, files |-> <<>>, archive |-> <<>>, finalized |-> FALSE,
     failedAt |-> 0, replies |-> <<>>]

\* the server after construction: empty registry, no connection, no request
ServerInit ==
    /\ jobProgress = <<>>
    /\ sseClients = <<>>
    /\ resState = [o \in Obs |-> "idle"]
    /\ resJob = [o \in Obs |-> ""]
    /\ received = [o \in Obs |-> <<>>]
    /\ command = <<>>
    /\ updates = [j \in Ids |-> <<>>]
    /\ issued = {}
    /\ returned = {}
    /\ lastReply = [code |-> 0]
    /\ split = IdleSplit
    /\ served = NotServed
    /\ invocation = <<>>

\* a fresh server and a client that has not touched its options
Init ==
    /\ ServerInit
    /\ options = ClientDefaults
    /\ assets = <<>>
    /\ disk = FreshDisk

\* a fresh server, a client holding any option set, any audio library
TransformInit ==
    /\ ServerInit
    /\ options \in OptionInputs
    /\ assets \in AssetLists
    /\ disk = FreshDisk

\* a server restarted on a disk that holds a saved preset and an old export
PathInit ==
    /\ ServerInit
    /\ options = ClientDefaults
    /\ assets = <<>>
    /\ disk = UsedDisk

\* --------------------------------------------------------- POST /api/export
ExportRejected(fileId) ==
    /\ fileId = "" \/ ~ExistsSync(InputPath(fileId))
    /\ lastReply' = IF fileId = "" THEN [code |-> 400] ELSE [code |-> 404]
    /\ UNCHANGED <<jobProgress, sseClients, resState, resJob, received, command,
                   updates, issued, returned, split,
                   env, served, invocation>>

\* the export route creating no registry entry before the command runs
ExportAcceptedWithoutEntry(fileId, id) ==
    /\ fileId # "" /\ ExistsSync(InputPath(fileId))
    /\ id \in FreshIds
    /\ issued' = issued \cup {id}
    /\ command' = MapSet(command, id, "running")
    /\ returned' = returned \cup {id}
    /\ lastReply' = [code |-> 200]
    /\ \E pick \in Picks :
            invocation' = MapSet(invocation, id,
                ExportInvocation(InputPath(fileId), AsJson(options), assets, pick, id))
    /\ UNCHANGED <<jobProgress, sseClients, resState, resJob, received, updates, split,
                   env, served>>

ExportAccepted(fileId, id) ==
    /\ fileId # "" /\ ExistsSync(InputPath(fileId))
    /\ id \in FreshIds
    /\ issued' = issued \cup {id}
    /\ jobProgress' = MapSet(jobProgress, id, RunningEvent(0))
    /\ command' = MapSet(command, id, "running")
    /\ returned' = returned \cup {id}
    /\ lastReply' = [code |-> 200]
    /\ \E pick \in Picks :
            invocation' = MapSet(invocation, id,
                ExportInvocation(InputPath(fileId), AsJson(options), assets, pick, id))
    /\ UNCHANGED <<sseClients, resState, resJob, received, updates, split,
                   env, served>>

\* ---------------------------------------------------------- GET /api/preview
PreviewRejected(fileId) ==
    /\ fileId = "" \/ ~ExistsSync(InputPath(fileId))
    /\ served' = IF fileId = ""
                 THEN [route |-> "preview", code |-> 400]
                 ELSE [route |-> "preview", code |-> 404, path |-> InputPath(fileId)]
    /\ UNCHANGED <<jobProgress, sseClients, resState, resJob, received, command,
                   updates, issued, returned, lastReply, split, env, invocation>>

\* the chains are built from the query and the command is piped to the
\* response; the route writes nothing the server keeps
PreviewAccepted(fileId) ==
    /\ fileId # "" /\ ExistsSync(InputPath(fileId))
    /\ \E pick \in Picks :
            LET built == PreviewInvocation(InputPath(fileId), AsQuery(options), assets, pick)
            IN served' = [route |-> "preview", code |-> 200, path |-> InputPath(fileId),
                          vFilters |-> built.vFilters, aFilters |-> built.aFilters,
                          command |-> built.command]
    /\ UNCHANGED <<jobProgress, sseClients, resState, resJob, received, command,
                   updates, issued, returned, lastReply, split, env, invocation>>

\* ---------------------------------------------------- GET /api/download/:file
Download(file) ==
    /\ served' = [route |-> "download", path |-> DownloadPath(file),
                  code |-> IF ExistsSync(DownloadPath(file)) THEN 200 ELSE 404]
    /\ UNCHANGED <<jobProgress, sseClients, resState, resJob, received, command,
                   updates, issued, returned, lastReply, split, env, invocation>>

\* ------------------------------------------------- export command callbacks
\* fluent-ffmpeg emits 'progress' while the process runs and then one of
\* 'end' and 'error', once: a callback runs only on a running command
OnProgress(id, p) ==
    /\ id \in DOMAIN command /\ command[id] = "running"
    /\ Len(updates[id]) < MaxProgress
    /\ LET percent == ClampPercent(p) IN
        /\ jobProgress' = MapSet(jobProgress, id, RunningEvent(percent))
        /\ received' = SendSse(id, RunningEvent(percent))
        /\ updates' = [updates EXCEPT ![id] = Append(@, RunningEvent(percent))]
    /\ UNCHANGED <<sseClients, resState, resJob, command, issued, returned,
                   lastReply, split,
                   env, served, invocation>>

OnEnd(id) ==
    /\ id \in DOMAIN command /\ command[id] = "running"
    /\ command' = [command EXCEPT ![id] = "ended"]
    /\ jobProgress' = MapSet(jobProgress, id, CompletedEvent(id))
    /\ received' = SendSse(id, CompletedEvent(id))
    /\ updates' = [updates EXCEPT ![id] = Append(@, CompletedEvent(id))]
    /\ UNCHANGED <<sseClients, resState, resJob, issued, returned,
                   lastReply, split,
                   env, served, invocation>>

\* the 'error' callback reporting the job as completed
OnErrorCompleted(id, err) ==
    /\ id \in DOMAIN command /\ command[id] = "running"
    /\ command' = [command EXCEPT ![id] = "ended"]
    /\ jobProgress' = MapSet(jobProgress, id, CompletedEvent(id))
    /\ received' = SendSse(id, CompletedEvent(id))
    /\ updates' = [updates EXCEPT ![id] = Append(@, CompletedEvent(id))]
    /\ UNCHANGED <<sseClients, resState, resJob, issued, returned,
                   lastReply, split, env, served, invocation>>

OnError(id, err) ==
    /\ id \in DOMAIN command /\ command[id] = "running"
    /\ command' = [command EXCEPT ![id] = "ended"]
    /\ jobProgress' = MapSet(jobProgress, id, ErrorEvent(err))
    /\ received' = SendSse(id, ErrorEvent(err))
    /\ updates' = [updates EXCEPT ![id] = Append(@, ErrorEvent(err))]
    /\ UNCHANGED <<sseClients, resState, resJob, issued, returned,
                   lastReply, split,
                   env, served, invocation>>

\* -------------------------------------------------- GET /api/progress/:jobId
\* registerSse that replaces the set of the job instead of adding to it
RegisterSseReplacing(jobId, o) == MapSet(sseClients, jobId, {o})

\* registerSse(jobId, res)
RegisterSse(jobId, o) ==
    MapSet(sseClients, jobId,
           (IF jobId \in DOMAIN sseClients THEN sseClients[jobId] ELSE {}) \cup {o})

\* each request brings a new response object: one not yet opened
NewRes == IF \A o \in Obs : resState[o] # "idle" THEN {}
          ELSE {CHOOSE o \in Obs : resState[o] = "idle"}

\* the progress route with a get-or-create read of the registry
SubscribeCreating(o, jobId) ==
    /\ o \in NewRes
    /\ resState' = [resState EXCEPT ![o] = "open"]
    /\ resJob' = [resJob EXCEPT ![o] = jobId]
    /\ sseClients' = RegisterSse(jobId, o)
    /\ received' = [received EXCEPT ![o] = Append(@, Snapshot(jobId))]
    /\ jobProgress' = MapSet(jobProgress, jobId, Snapshot(jobId))
    /\ UNCHANGED <<command, updates, issued, returned, lastReply, split,
                   env, served, invocation>>

Subscribe(o, jobId) ==
    /\ o \in NewRes
    /\ resState' = [resState EXCEPT ![o] = "open"]
    /\ resJob' = [resJob EXCEPT ![o] = jobId]
    /\ sseClients' = RegisterSse(jobId, o)
    /\ received' = [received EXCEPT ![o] = Append(@, Snapshot(jobId))]
    /\ UNCHANGED <<jobProgress, command, updates, issued, returned,
                   lastReply, split,
                   env, served, invocation>>

\* the 'close' handler clearing the whole set of the job
DisconnectAll(o) ==
    /\ resState[o] = "open"
    /\ resState' = [resState EXCEPT ![o] = "closed"]
    /\ sseClients' = [sseClients EXCEPT ![resJob[o]] = {}]
    /\ UNCHANGED <<jobProgress, resJob, received, command, updates,
                   issued, returned, lastReply, split, env, served, invocation>>

\* res.on('close'): sseClients.get(jobId)?.delete(res)
Disconnect(o) ==
    /\ resState[o] = "open"
    /\ resState' = [resState EXCEPT ![o] = "closed"]
    /\ sseClients' = [sseClients EXCEPT ![resJob[o]] = @ \ {o}]
    /\ UNCHANGED <<jobProgress, resJob, received, command, updates,
                   issued, returned, lastReply, split,
                   env, served, invocation>>

\* ---------------------------------------------------------- POST /api/split
\* `${zipId}_clip_${i + 1}.mp4` under OUTPUT_DIR
ClipPath(zipId, n) == <<zipId, "_clip_", n, ".mp4">>

\* the entry name taken from the 0-based loop index
ClipNameFromIndex(n) == <<"clip_", n - 1, ".mp4">>

\* `clip_${i + 1}.mp4`
ClipName(n) == <<"clip_", n, ".mp4">>

\* path.basename(zipPath) for zipPath = OUTPUT_DIR/<zipId>.zip
ZipName(zipId) == <<zipId, ".zip">>

\* the ffmpeg invocation that extracts segments[i] (i counts from 0 as in the code)
ClipCommand(input, zipId, segments, i) ==
    [input |-> InputPath(input), ss |-> segments[i + 1].start, to |-> segments[i + 1].end,
     output |-> ClipPath(zipId, i + 1)]

SplitRejected(fileId, segments) ==
    /\ split.pc = "idle"
    /\ fileId = "" \/ Len(segments) = 0 \/ ~ExistsSync(InputPath(fileId))
    /\ split' = [split EXCEPT
            !.pc = "rejected",
            !.replies = Append(@, IF fileId = "" \/ Len(segments) = 0
                                  THEN [code |-> 400, error |-> "fileId and segments required"]
                                  ELSE [code |-> 404, error |-> "File not found"])]
    /\ UNCHANGED <<jobProgress, sseClients, resState, resJob, received, command,
                   updates, issued, returned, lastReply,
                   env, served, invocation>>

\* the handler starting every extraction at once instead of awaiting each
SplitAcceptedParallel(fileId, segments, zipId) ==
    /\ split.pc = "idle"
    /\ fileId # "" /\ Len(segments) # 0 /\ ExistsSync(InputPath(fileId))
    /\ zipId \in FreshIds
    /\ issued' = issued \cup {zipId}
    /\ split' = [split EXCEPT
            !.pc = "extracting", !.input = fileId, !.zipId = zipId,
            !.segments = segments, !.i = 0,
            !.spawned = [k \in 1..Len(segments) |->
                            ClipCommand(fileId, zipId, segments, k - 1)]]
    /\ UNCHANGED <<jobProgress, sseClients, resState, resJob, received, command,
                   updates, returned, lastReply, env, served, invocation>>

\* the handler up to its first await: the archive is opened and the
\* extraction of segments[0] is started
SplitAccepted(fileId, segments, zipId) ==
    /\ split.pc = "idle"
    /\ fileId # "" /\ Len(segments) # 0 /\ ExistsSync(InputPath(fileId))
    /\ zipId \in FreshIds
    /\ issued' = issued \cup {zipId}
    /\ split' = [split EXCEPT
            !.pc = "extracting", !.input = fileId, !.zipId = zipId,
            !.segments = segments, !.i = 0,
            !.spawned = Append(@, ClipCommand(fileId, zipId, segments, 0))]
    /\ UNCHANGED <<jobProgress, sseClients, resState, resJob, received, command,
                   updates, returned, lastReply,
                   env, served, invocation>>

\* the loop calling archive.finalize() after its first extraction
AfterClipFinalizingFirst(sp) ==
    LET n == sp.i + 1
        entry == [source |-> ClipPath(sp.zipId, n), name |-> ClipName(n)]
        clip == [path |-> sp.spawned[Len(sp.spawned)].output,
                 ss |-> sp.spawned[Len(sp.spawned)].ss,
                 to |-> sp.spawned[Len(sp.spawned)].to]
    IN IF n < Len(sp.segments)
       THEN [sp EXCEPT
                !.i = n, !.files = Append(@, clip), !.archive = Append(@, entry),
                !.finalized = TRUE,
                !.spawned = Append(@, ClipCommand(sp.input, sp.zipId, sp.segments, n))]
       ELSE [sp EXCEPT
                !.pc = "finalizing", !.i = n, !.files = Append(@, clip),
                !.archive = Append(@, entry), !.finalized = TRUE]

\* the request after the running extraction has ended: archive.file, then
\* the next iteration of the loop or, after the last one, archive.finalize()
AfterClip(sp) ==
    LET n == sp.i + 1
        entry == [source |-> ClipPath(sp.zipId, n), name |-> ClipName(n)]
        clip == [path |-> sp.spawned[Len(sp.spawned)].output,
                 ss |-> sp.spawned[Len(sp.spawned)].ss,
                 to |-> sp.spawned[Len(sp.spawned)].to]
    IN IF n < Len(sp.segments)
       THEN [sp EXCEPT
                !.i = n, !.files = Append(@, clip), !.archive = Append(@, entry),
                !.spawned = Append(@, ClipCommand(sp.input, sp.zipId, sp.segments, n))]
       ELSE [sp EXCEPT
                !.pc = "finalizing", !.i = n, !.files = Append(@, clip),
                !.archive = Append(@, entry), !.finalized = TRUE]

\* 'end' of the running extraction: resolve
ClipEnd ==
    /\ split.pc = "extracting"
    /\ split' = AfterClip(split)
    /\ UNCHANGED <<jobProgress, sseClients, resState, resJob, received, command,
                   updates, issued, returned, lastReply,
                   env, served, invocation>>

\* the 'error' of the extraction wired to resolve instead of reject
ClipErrorResolved(err) ==
    /\ split.pc = "extracting"
    /\ split' = [AfterClip(split) EXCEPT !.failedAt = split.i + 1]
    /\ UNCHANGED <<jobProgress, sseClients, resState, resJob, received, command,
                   updates, issued, returned, lastReply,
                   env, served, invocation>>

\* 'error' of the running extraction: reject, caught by the handler
ClipError(err) ==
    /\ split.pc = "extracting"
    /\ split' = [split EXCEPT
            !.pc = "failed", !.failedAt = split.i + 1,
            !.replies = Append(@, [code |-> 500, error |-> "Split failed", details |-> err])]
    /\ UNCHANGED <<jobProgress, sseClients, resState, resJob, received, command,
                   updates, issued, returned, lastReply,
                   env, served, invocation>>

\* the promise of archive.finalize() resolves: output.on('close') is registered
FinalizeDone ==
    /\ split.pc = "finalizing"
    /\ split' = [split EXCEPT !.pc = "closing"]
    /\ UNCHANGED <<jobProgress, sseClients, resState, resJob, received, command,
                   updates, issued, returned, lastReply,
                   env, served, invocation>>

\* the promise of archive.finalize() rejects: caught by the handler
FinalizeError(err) ==
    /\ split.pc = "finalizing"
    /\ split' = [split EXCEPT
            !.pc = "failed",
            !.replies = Append(@, [code |-> 500, error |-> "Split failed", details |-> err])]
    /\ UNCHANGED <<jobProgress, sseClients, resState, resJob, received, command,
                   updates, issued, returned, lastReply,
                   env, served, invocation>>

\* the 'close' handler without its response
OutputCloseSilent ==
    /\ split.pc = "closing"
    /\ split' = [split EXCEPT !.pc = "done"]
    /\ UNCHANGED <<jobProgress, sseClients, resState, resJob, received, command,
                   updates, issued, returned, lastReply,
                   env, served, invocation>>

\* 'close' of the output stream: the download locator is sent
OutputClose ==
    /\ split.pc = "closing"
    /\ split' = [split EXCEPT
            !.pc = "done",
            !.replies = Append(@, [code |-> 200,
                                   downloadUrl |-> DownloadUrl(ZipName(split.zipId))])]
    /\ UNCHANGED <<jobProgress, sseClients, resState, resJob, received, command,
                   updates, issued, returned, lastReply,
                   env, served, invocation>>

\* ------------------------------------------------------------------ claims
Opened == {o \in Obs : resState[o] # "idle"}

\* every event an observer can see: registry entries, updates, SSE writes
RegistryEntries == {jobProgress[id] : id \in DOMAIN jobProgress}
UpdateEvents == UNION {{updates[id][k] : k \in 1..Len(updates[id])} : id \in Ids}
ReceivedEvents == UNION {{received[o][k] : k \in 1..Len(received[o])} : o \in Obs}

\* C1: the percent values every SSE response received, from the snapshot to
\* the terminal event, are non-decreasing
C1_PercentNonDecreasing ==
    \A o \in Obs : \A k \in 1..Len(received[o]) : \A m \in 1..Len(received[o]) :
        k < m => received[o][k].percent <= received[o][m].percent

\* C2: a registry entry or an event with percent 100 has status completed and
\* a populated downloadUrl
C2_HundredOnlyWithLocator ==
    \A e \in RegistryEntries \cup UpdateEvents \cup ReceivedEvents :
        e.percent = 100 =>
            /\ e.status = "completed"
            /\ "downloadUrl" \in DOMAIN e
            /\ \E id \in Ids : e.downloadUrl = <<"/api/download/", <<id, ".mp4">>>>

C2_Witness ==
    \E o \in Obs :
        /\ Len(received[o]) >= 3
        /\ received[o][2] = [percent |-> 99, status |-> "running"]
        /\ received[o][3].percent = 100
        /\ jobProgress[resJob[o]].percent = 100

\* C3: a response opened on a completed job is sent the terminal snapshot
\* (completed, 100, downloadUrl) at once, and nothing after it
C3_Step ==
    \A o \in Obs :
        LET id == resJob'[o]
            done == id \in DOMAIN jobProgress /\ jobProgress[id].status = "completed"
        IN /\ (resState[o] = "idle" /\ resState'[o] # "idle" /\ done) =>
                received'[o] = << [percent |-> 100, status |-> "completed",
                                   downloadUrl |-> <<"/api/download/", <<id, ".mp4">>>>] >>
           /\ (resState[o] # "idle" /\ received[o][1].status = "completed") =>
                received'[o] = received[o]

C3_LateSubscriber == [][C3_Step]_vars

C3_Witness ==
    \E o \in Obs, other \in Obs :
        /\ resState[o] = "open" /\ resState[other] = "open" /\ o # other
        /\ resJob[o] = resJob[other]
        /\ Len(received[other]) = 3
        /\ received[o] = <<received[other][3]>>
        /\ received[o][1].status = "completed"

\* the terminal events among the updates of a job
Terminals(id) ==
    {k \in 1..Len(updates[id]) : updates[id][k].status \in {"completed", "error"}}

\* C4: a job makes progress updates and then, when its ffmpeg command ends,
\* exactly one terminal update; once its registry entry is completed or error
\* the entry is not written and no event is broadcast for it
C4_Step ==
    \A id \in Ids :
        LET terminal == id \in DOMAIN jobProgress
                        /\ jobProgress[id].status \in {"completed", "error"}
        IN /\ terminal =>
                /\ id \in DOMAIN jobProgress' /\ jobProgress'[id] = jobProgress[id]
                /\ updates'[id] = updates[id]
                /\ \A o \in Opened : resJob[o] = id => received'[o] = received[o]
           /\ updates'[id] # updates[id] =>
                /\ Terminals(id) = {}
                /\ Len(updates'[id]) = Len(updates[id]) + 1
                /\ SubSeq(updates'[id], 1, Len(updates[id])) = updates[id]
                /\ jobProgress'[id] = updates'[id][Len(updates'[id])]
           /\ id \in DOMAIN command' =>
                (Terminals(id))' = IF command'[id] = "ended"
                                  THEN {Len(updates'[id])} ELSE {}

C4_OneTerminalTransition == [][C4_Step]_vars

C4_Witness ==
    \E id \in Ids, o \in Obs :
        /\ Len(updates[id]) = 2 /\ Terminals(id) = {2}
        /\ updates[id][1].status = "running"
        /\ resState[o] = "open" /\ resJob[o] = id /\ Len(received[o]) = 3

\* C5: the first event of a response is the registry's snapshot for its job
\* id at that moment; while the response is open every update of that job is
\* appended to it, in the order the updates are made, and nothing else is
C5_Step ==
    \A o \in Obs :
        LET id == resJob'[o] IN
        /\ (resState[o] = "idle" /\ resState'[o] # "idle") =>
                received'[o] = << IF id \in DOMAIN jobProgress THEN jobProgress[id]
                                  ELSE [percent |-> 0, status |-> "queued"] >>
        /\ resState[o] = "open" =>
                /\ resJob'[o] = resJob[o]
                /\ received'[o] = received[o] \o
                        SubSeq(updates'[id], Len(updates[id]) + 1, Len(updates'[id]))

C5_SnapshotThenEveryUpdate == [][C5_Step]_vars

C5_Witness ==
    \E o \in Obs, other \in Obs :
        /\ o # other /\ resState[o] = "open" /\ resState[other] = "open"
        /\ resJob[o] = resJob[other]
        /\ Len(updates[resJob[o]]) = 2
        /\ received[o] = <<[percent |-> 0, status |-> "running"]>> \o updates[resJob[o]]
        /\ received[other] = updates[resJob[o]]

\* C6: opening a response on a job id the registry does not hold sends the
\* default snapshot {percent 0, queued} and leaves the registry as it was
C6_Step ==
    \A o \in Obs :
        (resState[o] = "idle" /\ resState'[o] # "idle"
            /\ resJob'[o] \notin DOMAIN jobProgress) =>
                /\ resState'[o] = "open"
                /\ received'[o] = <<[percent |-> 0, status |-> "queued"]>>
                /\ jobProgress' = jobProgress

C6_UnknownJobRead == [][C6_Step]_vars

C6_Witness ==
    \E o \in Obs :
        /\ resState[o] = "open" /\ resJob[o] \notin DOMAIN jobProgress
        /\ received[o] = <<[percent |-> 0, status |-> "queued"]>>
        /\ DOMAIN jobProgress # {}

\* the split request was accepted (validation passed)
SplitAcceptedNow == split.pc \notin {"idle", "rejected"}

\* C7 as stated: every accepted export and every accepted split has a
\* registry entry
C7_EverySubmissionHasEntry ==
    /\ returned \subseteq DOMAIN jobProgress
    /\ SplitAcceptedNow => split.zipId \in DOMAIN jobProgress

\* C7, amended: an accepted export creates the registry entry {percent 0,
\* running} in the step that returns its job id, before any callback of the
\* job has run; an accepted split creates no registry entry
C7_Step ==
    /\ \A id \in returned' \ returned :
            /\ id \notin DOMAIN jobProgress
            /\ id \in DOMAIN jobProgress'
            /\ jobProgress'[id] = [percent |-> 0, status |-> "running"]
            /\ updates'[id] = <<>>
    /\ returned' \subseteq DOMAIN jobProgress'
    /\ \A id \in Ids : updates'[id] # updates[id] => id \in DOMAIN jobProgress
    /\ split' # split => jobProgress' = jobProgress
    /\ split'.zipId \notin DOMAIN jobProgress'

C7_ExportEntryAtSubmission == [][C7_Step]_vars

C7_Witness ==
    /\ split.pc = "extracting"
    /\ \E id \in returned :
            /\ jobProgress[id] = [percent |-> 0, status |-> "running"]
            /\ updates[id] = <<>>
            /\ DOMAIN jobProgress = {id}

\* C8: when an extraction fails, the only response is one 'Split failed'
\* failure, no download locator is sent and no later extraction is started
C8_AggregateFailure ==
    split.failedAt > 0 =>
        /\ Len(split.spawned) = split.failedAt
        /\ Len(split.replies) = 1
        /\ split.replies[1].code = 500 /\ split.replies[1].error = "Split failed"
        /\ "downloadUrl" \notin DOMAIN split.replies[1]
        /\ split.pc = "failed"

C8_Witness ==
    /\ split.failedAt = 1
    /\ Len(split.segments) = 2
    /\ Len(split.spawned) = 1
    /\ Len(split.replies) = 1

\* C9: an accepted split request whose extractions all terminate gets
\* exactly one response, a download locator or one failure, and no second one
C9_Step ==
    /\ Len(split'.replies) <= 1
    /\ Len(split.replies) = 1 => split'.replies = split.replies
    /\ \A k \in 1..Len(split'.replies) :
            \/ split'.replies[k] =
                    [code |-> 200, downloadUrl |-> <<"/api/download/", <<split'.zipId, ".zip">>>>]
            \/ split'.replies[k].code \in {400, 404, 500}

C9_ExactlyOneResponse ==
    /\ [][C9_Step]_vars
    /\ SplitAcceptedNow ~> (Len(split.replies) = 1)

C9_Witness ==
    /\ split.pc = "done"
    /\ split.replies = <<[code |-> 200,
                          downloadUrl |-> <<"/api/download/", <<split.zipId, ".zip">>>>]>>

\* C10: when every extraction of a request with N ranges has succeeded the
\* archive has N entries, the k-th is named clip_k.mp4 and is the file that
\* was extracted from the k-th range
C10_EntriesFollowRanges ==
    (SplitAcceptedNow /\ split.pc # "extracting" /\ split.failedAt = 0) =>
        /\ Len(split.archive) = Len(split.segments)
        /\ \A k \in 1..Len(split.archive) :
                /\ split.archive[k].name = <<"clip_", k, ".mp4">>
                /\ \E m \in 1..Len(split.files) :
                        /\ split.files[m].path = split.archive[k].source
                        /\ split.files[m].ss = split.segments[k].start
                        /\ split.files[m].to = split.segments[k].end
                        /\ \A x \in 1..Len(split.files) :
                                split.files[x].path = split.files[m].path => x = m

C10_Witness ==
    /\ split.pc = "done"
    /\ Len(split.archive) = 2
    /\ split.segments[1] # split.segments[2]

\* the preview request was answered with a piped command
PreviewBuilt == served.route = "preview" /\ served.code = 200

\* the chains the requests of this behaviour have built
BuiltVideoChains ==
    {invocation[id].vFilters : id \in DOMAIN invocation}
        \cup (IF PreviewBuilt THEN {served.vFilters} ELSE {})
BuiltAudioChains ==
    {invocation[id].aFilters : id \in DOMAIN invocation}
        \cup (IF PreviewBuilt THEN {served.aFilters} ELSE {})

\* every numeric field is supplied at its default and no toggle is on
AllDefaults(t) ==
    /\ t.brightness = Num(0) /\ t.contrast = Num(100) /\ t.saturation = Num(100)
    /\ t.gamma = Num(100) /\ t.pitchShift = Num(103) /\ t.tempo = Num(98)
    /\ t.bgmVolume = Num(8)
    /\ \A k \in {"colorGrade", "cropResize", "crop", "noiseReduction",
                 "copyrightAvoid", "addBgm"} : t[k] # On

\* C11: with every numeric field supplied at its default and no toggle on,
\* the video chain and the audio chain built by preview and by export are
\* both empty
C11_DefaultsPassThrough ==
    AllDefaults(options) =>
        /\ \A chain \in BuiltVideoChains : chain = <<>>
        /\ \A chain \in BuiltAudioChains : chain = <<>>

\* the options with addBgm switched
FlipBgm(t) == [t EXCEPT !.addBgm = IF @ = On THEN Off ELSE On]

\* C12: the chains built from an option set are the chains the builders
\* return for the option set that differs from it only in addBgm
C12_AddBgmLeavesChains ==
    /\ \A id \in DOMAIN invocation :
            /\ invocation[id].vFilters = buildVideoFilterGraph(AsJson(FlipBgm(options)))
            /\ invocation[id].aFilters = buildAudioFilterGraph(AsJson(FlipBgm(options)))
    /\ PreviewBuilt =>
            /\ served.vFilters = buildVideoFilterGraph(AsQuery(FlipBgm(options)))
            /\ served.aFilters = buildAudioFilterGraph(AsQuery(FlipBgm(options)))

C12_Witness ==
    /\ options.addBgm = On
    /\ PreviewBuilt /\ served.vFilters # <<>> /\ served.aFilters # <<>>
    /\ \E id \in DOMAIN invocation :
            invocation[id].vFilters # <<>> /\ invocation[id].aFilters # <<>>

\* the places of the stages of one filter in a chain
Positions(chain, name) == {k \in 1..Len(chain) : chain[k].filter = name}

\* C13: when crop/resize is requested the video chain has one crop stage,
\* one scale stage right after it, and both after the eq stage when there is
\* one; when it is not requested the chain has neither
C13_CropThenScale ==
    \A chain \in BuiltVideoChains :
        IF options.cropResize = On \/ options.crop = On
        THEN \E k \in 1..Len(chain) :
                /\ Positions(chain, "crop") = {k}
                /\ Positions(chain, "scale") = {k + 1}
                /\ \A e \in Positions(chain, "eq") : e < k
        ELSE Positions(chain, "crop") = {} /\ Positions(chain, "scale") = {}

C13_Witness ==
    /\ options.cropResize = Off /\ options.crop = On
    /\ PreviewBuilt /\ Len(served.vFilters) = 3 /\ served.vFilters[1].filter = "eq"
    /\ \E id \in DOMAIN invocation : Len(invocation[id].vFilters) = 2

\* p lies under the directory base
Inside(base, p) == Len(p) > Len(base) /\ SubSeq(p, 1, Len(base)) = base

\* C14: every path that preview, export and split check and hand to ffmpeg
\* lies under UPLOAD_DIR, and every path that download checks and sends lies
\* under OUTPUT_DIR
C14_PathsInsideBase ==
    /\ \A id \in DOMAIN invocation : Inside(UPLOAD_DIR, invocation[id].command.inputs[1])
    /\ \A k \in 1..Len(split.spawned) : Inside(UPLOAD_DIR, split.spawned[k].input)
    /\ (served.route = "preview" /\ "path" \in DOMAIN served) => Inside(UPLOAD_DIR, served.path)
    /\ served.route = "download" => Inside(OUTPUT_DIR, served.path)

\* a range that does not end after its start
Malformed(r) == r.end <= r.start

\* C15: a split request that got past validation has an identifier, at
\* least one range and no malformed range; a rejected one has spawned
\* nothing and opened no archive; only the exports that were accepted own a
\* registry entry or a command
C15_InvalidRejected ==
    /\ split.pc \notin {"idle", "rejected"} =>
            /\ split.input # "" /\ split.segments # <<>>
            /\ \A k \in 1..Len(split.segments) : ~Malformed(split.segments[k])
    /\ split.pc = "rejected" =>
            /\ split.spawned = <<>> /\ split.zipId = ""
            /\ Len(split.replies) = 1 /\ split.replies[1].code \in {400, 404}
    /\ DOMAIN jobProgress = returned
    /\ DOMAIN command = returned
    /\ DOMAIN invocation = returned

\* C16: with addBgm on and an empty library, export runs the single-source
\* command with the chains of the same options with addBgm off, its job is
\* registered as running with the three callbacks attached, and preview
\* answers 200 with the single-source command of the same options with
\* addBgm off
C16_EmptyLibraryFallsBack ==
    (options.addBgm = On /\ assets = <<>>) =>
        /\ \A id \in DOMAIN invocation :
            LET off == AsJson([options EXCEPT !.addBgm = Off])
                cmd == invocation[id].command
            IN /\ Len(cmd.inputs) = 1
               /\ cmd = [inputs |-> <<cmd.inputs[1]>>, complexFilter |-> <<>>,
                         maps |-> <<>>,
                         videoFilters |-> buildVideoFilterGraph(off),
                         audioFilters |-> buildAudioFilterGraph(off),
                         output |-> [dir |-> OUTPUT_DIR, name |-> <<id, ".mp4">>],
                         on |-> {"progress", "end", "error"}]
               /\ id \in returned /\ id \in DOMAIN command /\ command[id] = "running"
               /\ id \in DOMAIN jobProgress
               /\ jobProgress[id] = [percent |-> 0, status |-> "running"]
        /\ served.route = "preview" =>
            LET off == AsQuery([options EXCEPT !.addBgm = Off])
            IN /\ served.code = 200
               /\ Len(served.command.inputs) = 1
               /\ served.command.complexFilter = <<>> /\ served.command.maps = <<>>
               /\ served.command.videoFilters = buildVideoFilterGraph(off)
               /\ served.command.audioFilters = buildAudioFilterGraph(off)

C16_Witness ==
    /\ options.addBgm = On /\ assets = <<>>
    /\ PreviewBuilt /\ served.command.videoFilters # <<>>
    /\ \E id \in DOMAIN invocation :
            /\ Len(invocation[id].command.videoFilters) = 3
            /\ Len(invocation[id].command.audioFilters) = 6

\* the attenuation of the library track in a two-input command
BgmVolumeOf(cmd) == cmd.complexFilter[Len(cmd.complexFilter)].filter.volume

\* C17: preview and export build the same video chain and the same audio
\* chain from the same options, and the same attenuation when both mix
C17_PreviewMatchesExport ==
    PreviewBuilt =>
        \A id \in DOMAIN invocation :
            /\ served.vFilters = invocation[id].vFilters
            /\ served.aFilters = invocation[id].aFilters
            /\ (Len(served.command.inputs) = 2 /\ Len(invocation[id].command.inputs) = 2) =>
                    BgmVolumeOf(served.command) = BgmVolumeOf(invocation[id].command)

\* C18: when the command of an export job reports failure the registry entry
\* becomes {percent 0, error, detail} and every response open on the job is
\* sent that event; an entry with status error is never written again
C18_Step ==
    \A id \in Ids :
        /\ \A err \in ErrDetails :
            OnError(id, err) =>
                /\ id \in DOMAIN jobProgress'
                /\ jobProgress'[id] = [percent |-> 0, status |-> "error", error |-> err]
                /\ \A o \in Obs :
                    (resState[o] = "open" /\ resJob[o] = id) =>
                        received'[o] = Append(received[o], jobProgress'[id])
        /\ (id \in DOMAIN jobProgress /\ jobProgress[id].status = "error") =>
                /\ id \in DOMAIN jobProgress'
                /\ jobProgress'[id] = jobProgress[id]

C18_FailureSurfacesAsError == [][C18_Step]_vars

C18_Witness ==
    \E id \in Ids, o \in Obs, other \in Obs :
        /\ o # other /\ resJob[o] = id /\ resJob[other] = id
        /\ resState[o] = "open" /\ resState[other] = "open"
        /\ id \in DOMAIN jobProgress /\ jobProgress[id].status = "error"
        /\ Len(received[o]) = 3 /\ received[o][3] = jobProgress[id]
        /\ Len(received[other]) = 2 /\ received[other][2] = jobProgress[id]

\* C19: every percent stored or broadcast with status running is an integer
\* of 0..99
C19_RunningPercentInRange ==
    \A e \in RegistryEntries \cup UpdateEvents \cup ReceivedEvents :
        e.status = "running" => e.percent \in 0..99

\* the extractions of the split request that have not ended
RunningClips ==
    Len(split.spawned) - Len(split.files) - (IF split.failedAt > 0 THEN 1 ELSE 0)

\* C20: a split request has at most one extraction running; the extraction
\* of a range is started when every extraction before it has ended with
\* success
C20_Step ==
    Len(split'.spawned) > Len(split.spawned) =>
        /\ Len(split'.spawned) = Len(split.spawned) + 1
        /\ Len(split'.files) = Len(split.spawned)
        /\ split'.failedAt = 0
        /\ split'.spawned[Len(split'.spawned)].ss =
                split'.segments[Len(split'.spawned)].start

C20_OneExtractionAtATime ==
    /\ [](RunningClips \in {0, 1})
    /\ [][C20_Step]_vars

C20_Witness ==
    /\ split.pc = "extracting" /\ RunningClips = 1
    /\ Len(split.spawned) = 2 /\ Len(split.files) = 1
    /\ \E id \in DOMAIN command : command[id] = "running"

\* C21: the archive is finalized only when every range of the request has
\* been extracted and added, never after an extraction failed, and a download
\* locator is sent only for a finalized archive
C21_FinalizeAfterAllClips ==
    /\ split.finalized =>
            /\ Len(split.files) = Len(split.segments)
            /\ Len(split.archive) = Len(split.segments)
            /\ split.failedAt = 0
    /\ split.failedAt > 0 => ~split.finalized
    /\ \A k \in 1..Len(split.replies) :
            "downloadUrl" \in DOMAIN split.replies[k] =>
                split.finalized /\ split.pc = "done"

C21_Witness ==
    /\ split.finalized /\ Len(split.segments) = 2 /\ Len(split.files) = 2
    /\ Len(split.replies) = 1 /\ "downloadUrl" \in DOMAIN split.replies[1]

\* C22: the close of a response removes that response alone from the set
\* of its job and touches no command, no registry entry and no other
\* response; a closed response is written no more; a response that stays
\* open is sent every update of its job; every update is stored in the
\* registry whoever is connected
C22_Step ==
    /\ \A o \in Obs :
        /\ (resState[o] = "open" /\ resState'[o] = "closed") =>
                /\ DOMAIN sseClients' = DOMAIN sseClients
                /\ \A j \in DOMAIN sseClients :
                        sseClients'[j] = IF j = resJob[o] THEN sseClients[j] \ {o}
                                         ELSE sseClients[j]
                /\ command' = command /\ jobProgress' = jobProgress
                /\ \A other \in Obs \ {o} :
                        resState'[other] = resState[other]
                        /\ received'[other] = received[other]
        /\ resState[o] = "closed" =>
                resState'[o] = "closed" /\ received'[o] = received[o]
        /\ (resState[o] = "open" /\ resState'[o] = "open") =>
                received'[o] = received[o] \o
                    SubSeq(updates'[resJob[o]], Len(updates[resJob[o]]) + 1,
                           Len(updates'[resJob[o]]))
    /\ \A id \in Ids :
        updates'[id] # updates[id] =>
            /\ id \in DOMAIN jobProgress'
            /\ jobProgress'[id] = updates'[id][Len(updates'[id])]

C22_DisconnectRemovesOne == [][C22_Step]_vars

C22_Witness ==
    \E id \in Ids, o \in Obs, other \in Obs :
        /\ resJob[o] = id /\ resJob[other] = id
        /\ resState[o] = "closed" /\ resState[other] = "open"
        /\ Len(received[o]) = 1 /\ received[o][1].status = "running"
        /\ Len(updates[id]) = 2 /\ command[id] = "ended"
        /\ received[other] = received[o] \o updates[id]
        /\ jobProgress[id] = updates[id][2]

\* an explicit value was supplied for the option
Supplied(x) == x.kind # "undefined"

\* the value of a colour option of the client: the supplied value, or the
\* value the code takes when none is supplied
ValueOr(x, d) == IF Supplied(x) THEN x.v ELSE d

\* saturation and gamma as the eq stage has to carry them: the supplied
\* value, the colorGrade default when colorGrade alone is on, 1 when inactive
ActiveSaturation(t) ==
    IF t.colorGrade = On \/ Supplied(t.saturation) THEN ValueOr(t.saturation, 105) ELSE 100
ActiveGamma(t) ==
    IF t.colorGrade = On \/ Supplied(t.gamma) THEN ValueOr(t.gamma, 102) ELSE 100

\* C23: the video chain has an eq stage exactly when brightness is not 0,
\* contrast is not 1, active saturation is not 1 or active gamma is not 1,
\* and the stage carries the supplied values
C23_EqIffDeviation ==
    \A chain \in BuiltVideoChains :
        IF \/ ValueOr(options.brightness, 0) # 0
           \/ ValueOr(options.contrast, 100) # 100
           \/ ActiveSaturation(options) # 100
           \/ ActiveGamma(options) # 100
        THEN /\ Positions(chain, "eq") = {1}
             /\ chain[1].brightness = ValueOr(options.brightness, 0)
             /\ chain[1].contrast = ValueOr(options.contrast, 100)
             /\ chain[1].saturation = ActiveSaturation(options)
             /\ chain[1].gamma = ActiveGamma(options)
        ELSE Positions(chain, "eq") = {}

\* C24: a registry entry or an event carries a downloadUrl only with status
\* completed and an error detail only with status error; with status running
\* or queued it has neither
C24_LocatorAndDetailByStatus ==
    \A e \in RegistryEntries \cup UpdateEvents \cup ReceivedEvents :
        /\ "downloadUrl" \in DOMAIN e => e.status = "completed"
        /\ "error" \in DOMAIN e => e.status = "error"
        /\ e.status \in {"running", "queued"} => DOMAIN e = {"percent", "status"}

C24_Witness ==
    \E id \in Ids, jd \in Ids, o \in Obs :
        /\ id \in DOMAIN jobProgress /\ jd \in DOMAIN jobProgress
        /\ "downloadUrl" \in DOMAIN jobProgress[id]
        /\ "error" \in DOMAIN jobProgress[jd]
        /\ Len(received[o]) = 3
        /\ received[o][1].status = "queued" /\ received[o][2].status = "running"

\* C25: once a callback of a job has run, the registry entry of the job is
\* the last update made for it and the last event of every response open on
\* the job; a response opened then is sent that entry; an update of one job
\* leaves the entries of the other jobs and the responses of their observers
\* as they were
C25_Step ==
    /\ \A id \in Ids :
        /\ Len(updates'[id]) > 0 =>
            /\ id \in DOMAIN jobProgress'
            /\ jobProgress'[id] = updates'[id][Len(updates'[id])]
            /\ \A o \in Obs :
                (resState'[o] = "open" /\ resJob'[o] = id) =>
                    received'[o][Len(received'[o])] = jobProgress'[id]
        /\ updates'[id] # updates[id] =>
            /\ \A j \in DOMAIN jobProgress \ {id} :
                    j \in DOMAIN jobProgress' /\ jobProgress'[j] = jobProgress[j]
            /\ \A o \in Obs : resJob[o] # id => received'[o] = received[o]
            /\ \A o \in Obs :
                (resState[o] = "open" /\ resJob[o] = id) =>
                    received'[o] = Append(received[o], jobProgress'[id])

C25_RegistryIsLastBroadcast == [][C25_Step]_vars

C25_Witness ==
    \E id \in Ids, jd \in Ids, o \in Obs, other \in Obs :
        /\ id # jd /\ resState[o] = "open" /\ resState[other] = "open"
        /\ resJob[o] = id /\ resJob[other] = jd
        /\ Len(updates[id]) = 2 /\ updates[jd] = <<>>
        /\ Len(received[o]) = 3 /\ received[o][3] = jobProgress[id]
        /\ jd \in DOMAIN jobProgress /\ received[other] = <<jobProgress[jd]>>

\* the two-input commands built so far
DualSourceCommands ==
    {invocation[id].command : id \in {j \in DOMAIN invocation :
                                        Len(invocation[j].command.inputs) = 2}}
        \cup (IF PreviewBuilt /\ Len(served.command.inputs) = 2
              THEN {served.command} ELSE {})

\* the output labels the complex filter graph of a command defines
DefinedLabels(cmd) ==
    UNION {{cmd.complexFilter[i].outputs[j] : j \in 1..Len(cmd.complexFilter[i].outputs)} :
                i \in 1..Len(cmd.complexFilter)}

\* the stream specifiers of the inputs of a command
InputSpecifiers(cmd) ==
    UNION {{<<i - 1, "v">>, <<i - 1, "a">>} : i \in 1..Len(cmd.inputs)}

\* a mapped label as a stream specifier
AsSpecifier(label) ==
    CASE label = "0:v" -> <<0, "v">>
      [] label = "0:a" -> <<0, "a">>
      [] label = "1:v" -> <<1, "v">>
      [] label = "1:a" -> <<1, "a">>
      [] OTHER -> <<-1, label>>

\* C26: in a two-input command every mapped label is an output label of its
\* complex filter graph or a stream specifier of one of its inputs, and with
\* no video chain in the graph the video is mapped from input 0
C26_MappedLabelsDefined ==
    \A cmd \in DualSourceCommands :
        /\ \A k \in 1..Len(cmd.maps) :
                \/ cmd.maps[k] \in DefinedLabels(cmd)
                \/ AsSpecifier(cmd.maps[k]) \in InputSpecifiers(cmd)
        /\ "v" \notin DefinedLabels(cmd) => cmd.maps[1] = "0:v"

\* ---------------------------------------------------------- specifications
ExportNext ==
    \/ \E f \in FileIds, id \in Ids : ExportAccepted(f, id)
    \/ \E id \in Ids, p \in ProgressInputs : OnProgress(id, p)
    \/ \E id \in Ids : OnEnd(id)
    \/ \E id \in Ids, err \in ErrDetails : OnError(id, err)

SseNext ==
    \/ \E o \in Obs, id \in Ids : Subscribe(o, id)
    \/ \E o \in Obs : Disconnect(o)

SplitNext ==
    \/ \E f \in FileIds, segs \in SegLists : SplitRejected(f, segs)
    \/ \E f \in FileIds, segs \in SegLists, id \in Ids : SplitAccepted(f, segs, id)
    \/ ClipEnd
    \/ \E err \in ErrDetails : ClipError(err)
    \/ FinalizeDone
    \/ \E err \in ErrDetails : FinalizeError(err)
    \/ OutputClose

JobNext == ExportNext \/ SseNext

RequestNext ==
    \/ \E f \in FileIds : ExportRejected(f)
    \/ ExportNext
    \/ SplitNext

\* the requests that build an ffmpeg command from the client's options
TransformNext ==
    \/ \E f \in FileIds : PreviewAccepted(f)
    \/ \E f \in FileIds, id \in Ids : ExportAccepted(f, id)

\* the requests that resolve a client-supplied identifier to a path
PathNext ==
    \/ \E f \in FileIds : PreviewRejected(f)
    \/ \E f \in FileIds : PreviewAccepted(f)
    \/ \E f \in FileIds : ExportRejected(f)
    \/ \E f \in FileIds, id \in Ids : ExportAccepted(f, id)
    \/ \E f \in FileIds, segs \in SegLists : SplitRejected(f, segs)
    \/ \E f \in FileIds, segs \in SegLists, id \in Ids : SplitAccepted(f, segs, id)
    \/ \E file \in DownloadNames : Download(file)

Next == JobNext \/ RequestNext \/ TransformNext \/ PathNext

\* the registry and the broadcaster under export jobs and SSE connections
JobSpec == Init /\ [][JobNext]_vars

\* the request handling of export and split
RequestSpec == Init /\ [][RequestNext]_vars

\* RequestSpec when every ffmpeg process exits, the archive is written out
\* and the output stream closes
FairRequestSpec ==
    /\ RequestSpec
    /\ WF_vars(ClipEnd \/ \E err \in ErrDetails : ClipError(err))
    /\ WF_vars(FinalizeDone \/ \E err \in ErrDetails : FinalizeError(err))
    /\ WF_vars(OutputClose)

\* the commands preview and export build, for every option set and library
TransformSpec == TransformInit /\ [][TransformNext]_vars

\* the paths the routes resolve, on a disk that holds more than the uploads
PathSpec == PathInit /\ [][PathNext]_vars

\* the whole server
Spec == Init /\ [][Next]_vars
====
